---- MODULE Spec2Model ----
(***************************************************************************)
(* Model of self_verify_solver/app.py: the structured-output extractor     *)
(* (extract_json), the model gateway (call_llm) and the solve / verify /   *)
(* fix loop (solve_one).                                                   *)
(*                                                                         *)
(* Texts are sequences of one-character strings.  JSON values are records  *)
(*   [t |-> tag, s |-> characters, e |-> entries]                          *)
(* with tag in {"str","int","float","true","false","null","arr","obj"};    *)
(* s holds the characters of a string or of a number literal; e holds the  *)
(* entries [k |-> key characters, v |-> value] of an object in insertion   *)
(* order (as a Python dict keeps them) or of a list (k = <<>>).            *)
(***************************************************************************)
EXTENDS Integers, Sequences, FiniteSets, TLC

VARIABLES
    line,       \* extract_json: the text handed to the extractor
    origin,     \* extract_json: how that text was built (prefix, object, suffix)
    ret,        \* extract_json: its outcome, or NotCalled
    sess,       \* solve_one: the frame of each session (its arguments, locals,
                \* position, the request it awaits, the calls it has issued)
    obs,        \* per session, what the generation service has answered so far
    log         \* per session, the replies it received, in order

vars == <<line, origin, ret, sess, obs, log>>

-----------------------------------------------------------------------------
(* JSON values as json.loads builds them *)

JStr(s) == [t |-> "str", s |-> s, e |-> <<>>]
JInt(s) == [t |-> "int", s |-> s, e |-> <<>>]
JFloat(s) == [t |-> "float", s |-> s, e |-> <<>>]
JTrue == [t |-> "true", s |-> <<>>, e |-> <<>>]
JFalse == [t |-> "false", s |-> <<>>, e |-> <<>>]
JNull == [t |-> "null", s |-> <<>>, e |-> <<>>]
Entry(k, v) == [k |-> k, v |-> v]
JArr(vs) == [t |-> "arr", s |-> <<>>, e |-> [i \in 1..Len(vs) |-> Entry(<<>>, vs[i])]]
JObj(es) == [t |-> "obj", s |-> <<>>, e |-> es]

\* Python's None (solve_one's initial candidate); not a JSON value
None == [t |-> "None", s |-> <<>>, e |-> <<>>]

Keys(es) == {es[i].k : i \in 1..Len(es)}

\* d[k] for a key the dict holds
Lookup(es, k) == es[CHOOSE i \in 1..Len(es) : es[i].k = k].v

\* dict construction from the (key, value) pairs in text order: a repeated
\* key keeps its first position and takes the last value
RECURSIVE DictOf(_)
DictOf(pairs) ==
    IF pairs = <<>> THEN <<>>
    ELSE LET n == Len(pairs)
             d == DictOf(SubSeq(pairs, 1, n - 1))
             p == pairs[n]
         IN  IF p.k \in Keys(d)
             THEN [i \in 1..Len(d) |-> IF d[i].k = p.k THEN p ELSE d[i]]
             ELSE Append(d, p)

Digits == {"0", "1", "2", "3", "4", "5", "6", "7", "8", "9"}
DigitVal(c) == CASE c = "0" -> 0 [] c = "1" -> 1 [] c = "2" -> 2 [] c = "3" -> 3
                 [] c = "4" -> 4 [] c = "5" -> 5 [] c = "6" -> 6 [] c = "7" -> 7
                 [] c = "8" -> 8 [] c = "9" -> 9

\* int(literal) for a literal -?digits
RECURSIVE NatOf(_)
NatOf(ds) == IF ds = <<>> THEN 0
             ELSE 10 * NatOf(SubSeq(ds, 1, Len(ds) - 1)) + DigitVal(ds[Len(ds)])
IntOf(s) == IF s[1] = "-" THEN 0 - NatOf(Tail(s)) ELSE NatOf(s)

\* Python's == on the values json.loads returns: dicts compare as mappings
\* (order ignored), lists element by element, and bool is an int (True == 1).
\* Float literals are compared by their text.
IsIntLike(v) == v.t \in {"int", "true", "false"}
IntLike(v) == CASE v.t = "int" -> IntOf(v.s) [] v.t = "true" -> 1 [] v.t = "false" -> 0
RECURSIVE PyEq(_, _)
PyEq(a, b) ==
    IF IsIntLike(a) /\ IsIntLike(b) THEN IntLike(a) = IntLike(b)
    ELSE IF a.t # b.t THEN FALSE
    ELSE IF a.t = "obj"
         THEN /\ Keys(a.e) = Keys(b.e)
              /\ \A k \in Keys(a.e) : PyEq(Lookup(a.e, k), Lookup(b.e, k))
    ELSE IF a.t = "arr"
         THEN /\ Len(a.e) = Len(b.e)
              /\ \A i \in 1..Len(a.e) : PyEq(a.e[i].v, b.e[i].v)
    ELSE a.s = b.s

-----------------------------------------------------------------------------
(* json.loads: the JSON grammar as the standard decoder scans it.  Not     *)
(* modelled: \u escapes and the literals NaN, Infinity, -Infinity (no text *)
(* of the model holds them).                                               *)

Fail == [ok |-> FALSE, v |-> None, i |-> 0]
Got(v, i) == [ok |-> TRUE, v |-> v, i |-> i]

\* the character at position i, "" past the end
At(t, i) == IF i >= 1 /\ i <= Len(t) THEN t[i] ELSE ""

WHITESPACE == {" ", "\t", "\n", "\r"}
ControlChars == {"\t", "\n", "\r"}

RECURSIVE skip_ws(_, _)
skip_ws(t, i) == IF At(t, i) \in WHITESPACE THEN skip_ws(t, i + 1) ELSE i

Matches(t, i, w) == /\ i + Len(w) - 1 <= Len(t)
                    /\ SubSeq(t, i, i + Len(w) - 1) = w

\* the character a backslash escape stands for, "" if it is no escape
Unescape(c) == CASE c = "\"" -> "\""
                 [] c = "\\" -> "\\"
                 [] c = "/" -> "/"
                 [] c = "n" -> "\n"
                 [] c = "r" -> "\r"
                 [] c = "t" -> "\t"
                 [] OTHER -> ""

\* py_scanstring (strict): i is the position after the opening quote, acc the
\* characters decoded so far
RECURSIVE scanstring(_, _, _)
scanstring(t, i, acc) ==
    LET c == At(t, i) IN
    IF c = "" THEN Fail
    ELSE IF c = "\"" THEN Got(JStr(acc), i + 1)
    ELSE IF c \in ControlChars THEN Fail
    ELSE IF c = "\\"
         THEN IF Unescape(At(t, i + 1)) = "" THEN Fail
              ELSE scanstring(t, i + 2, Append(acc, Unescape(At(t, i + 1))))
    ELSE scanstring(t, i + 1, Append(acc, c))

RECURSIVE DigitsEnd(_, _)
DigitsEnd(t, i) == IF At(t, i) \in Digits THEN DigitsEnd(t, i + 1) ELSE i

\* NUMBER_RE = (-?(?:0|[1-9]\d*))(\.\d+)?([eE][-+]?\d+)?  matched at i:
\* p is the position after the sign, intEnd, fracEnd and expEnd the positions
\* after the integer part, the fraction and the exponent
ExpDigits(t, fracEnd) ==
    IF At(t, fracEnd + 1) \in {"-", "+"} THEN fracEnd + 2 ELSE fracEnd + 1

\* int(literal) as json.dumps writes it back
int_literal(lit) == IF IntOf(lit) = 0 THEN <<"0">> ELSE lit

number_value(t, i, intEnd, expEnd) ==
    IF expEnd = intEnd THEN Got(JInt(int_literal(SubSeq(t, i, expEnd - 1))), expEnd)
    ELSE Got(JFloat(SubSeq(t, i, expEnd - 1)), expEnd)

number_exp(t, i, intEnd, fracEnd) ==
    number_value(t, i, intEnd,
                 IF At(t, fracEnd) \in {"e", "E"} /\ At(t, ExpDigits(t, fracEnd)) \in Digits
                 THEN DigitsEnd(t, ExpDigits(t, fracEnd)) ELSE fracEnd)

number_frac(t, i, intEnd) ==
    number_exp(t, i, intEnd,
               IF At(t, intEnd) = "." /\ At(t, intEnd + 1) \in Digits
               THEN DigitsEnd(t, intEnd + 1) ELSE intEnd)

number_int(t, i, p) ==
    IF At(t, p) \notin Digits THEN Fail
    ELSE number_frac(t, i, IF At(t, p) = "0" THEN p + 1 ELSE DigitsEnd(t, p))

scan_number(t, i) == number_int(t, i, IF At(t, i) = "-" THEN i + 1 ELSE i)

RECURSIVE scan_once(_, _), JSONObject(_, _, _), JSONArray(_, _, _)
RECURSIVE object_key(_, _, _), object_colon(_, _, _, _), object_value(_, _, _, _)
RECURSIVE object_next(_, _, _), array_value(_, _, _), array_next(_, _, _)

\* scanner.py_make_scanner._scan_once
scan_once(t, i) ==
    LET c == At(t, i) IN
    IF c = "\"" THEN scanstring(t, i + 1, <<>>)
    ELSE IF c = "{" THEN JSONObject(t, skip_ws(t, i + 1), <<>>)
    ELSE IF c = "[" THEN JSONArray(t, skip_ws(t, i + 1), <<>>)
    ELSE IF Matches(t, i, <<"n", "u", "l", "l">>) THEN Got(JNull, i + 4)
    ELSE IF Matches(t, i, <<"t", "r", "u", "e">>) THEN Got(JTrue, i + 4)
    ELSE IF Matches(t, i, <<"f", "a", "l", "s", "e">>) THEN Got(JFalse, i + 5)
    ELSE scan_number(t, i)

\* decoder.JSONObject: i is the position after "{" and whitespace, or of the
\* next key; pairs are the (key, value) pairs read so far
JSONObject(t, i, pairs) ==
    IF pairs = <<>> /\ At(t, i) = "}" THEN Got(JObj(<<>>), i + 1)
    ELSE IF At(t, i) # "\"" THEN Fail
    ELSE object_key(t, scanstring(t, i + 1, <<>>), pairs)

\* the key is read: a colon follows
object_key(t, key, pairs) ==
    IF ~key.ok THEN Fail ELSE object_colon(t, key, skip_ws(t, key.i), pairs)

object_colon(t, key, colon, pairs) ==
    IF At(t, colon) # ":" THEN Fail
    ELSE object_value(t, key, scan_once(t, skip_ws(t, colon + 1)), pairs)

\* the value is read: "}" or "," follows
object_value(t, key, val, pairs) ==
    IF ~val.ok THEN Fail
    ELSE object_next(t, skip_ws(t, val.i), Append(pairs, Entry(key.v.s, val.v)))

object_next(t, sep, pairs) ==
    IF At(t, sep) = "}" THEN Got(JObj(DictOf(pairs)), sep + 1)
    ELSE IF At(t, sep) = "," THEN JSONObject(t, skip_ws(t, sep + 1), pairs)
    ELSE Fail

\* decoder.JSONArray: i is the position after "[" and whitespace, or of the
\* next element
JSONArray(t, i, vals) ==
    IF vals = <<>> /\ At(t, i) = "]" THEN Got(JArr(<<>>), i + 1)
    ELSE array_value(t, scan_once(t, i), vals)

array_value(t, val, vals) ==
    IF ~val.ok THEN Fail ELSE array_next(t, skip_ws(t, val.i), Append(vals, val.v))

array_next(t, sep, vals) ==
    IF At(t, sep) = "]" THEN Got(JArr(vals), sep + 1)
    ELSE IF At(t, sep) = "," THEN JSONArray(t, skip_ws(t, sep + 1), vals)
    ELSE Fail

\* the value must be followed by whitespace only ("Extra data" otherwise)
loads_end(t, r) ==
    IF ~r.ok THEN Fail
    ELSE IF skip_ws(t, r.i) # Len(t) + 1 THEN Fail
    ELSE r

\* json.loads(text): one value, surrounded by whitespace only
json_loads(t) == loads_end(t, scan_once(t, skip_ws(t, 1)))

-----------------------------------------------------------------------------
(* json.dumps(obj, ensure_ascii=False): separators ", " and ": ", keys in  *)
(* insertion order                                                         *)

Escape(c) == CASE c = "\"" -> <<"\\", "\"">>
               [] c = "\\" -> <<"\\", "\\">>
               [] c = "\n" -> <<"\\", "n">>
               [] c = "\r" -> <<"\\", "r">>
               [] c = "\t" -> <<"\\", "t">>
               [] OTHER -> <<c>>

RECURSIVE encode_str(_)
encode_str(s) == IF s = <<>> THEN <<>> ELSE Escape(Head(s)) \o encode_str(Tail(s))

Quoted(s) == <<"\"">> \o encode_str(s) \o <<"\"">>

RECURSIVE json_dumps(_), dump_items(_, _)
json_dumps(v) ==
    CASE v.t = "str" -> Quoted(v.s)
      [] v.t \in {"int", "float"} -> v.s
      [] v.t = "true" -> <<"t", "r", "u", "e">>
      [] v.t = "false" -> <<"f", "a", "l", "s", "e">>
      [] v.t = "null" -> <<"n", "u", "l", "l">>
      [] v.t = "arr" -> <<"[">> \o dump_items(v.e, FALSE) \o <<"]">>
      [] v.t = "obj" -> <<"{">> \o dump_items(v.e, TRUE) \o <<"}">>

dump_items(es, keyed) ==
    IF es = <<>> THEN <<>>
    ELSE LET item == IF keyed
                     THEN Quoted(es[1].k) \o <<":", " ">> \o json_dumps(es[1].v)
                     ELSE json_dumps(es[1].v)
         IN  IF Len(es) = 1 THEN item
             ELSE item \o <<",", " ">> \o dump_items(Tail(es), keyed)

-----------------------------------------------------------------------------
(* extract_json *)

Positions(t, c) == {i \in 1..Len(t) : t[i] = c}
Min(S) == CHOOSE x \in S : \A y \in S : x <= y
Max(S) == CHOOSE x \in S : \A y \in S : x >= y

\* JSON_OBJ_RE.search(line): the leftmost match of \{.*\} with DOTALL, the
\* star greedy: from the first "{" to the last "}" after it
JSON_OBJ_RE_lazy(t) ==
    LET opens == Positions(t, "{")
        lo == Min(opens)
        closes == {i \in Positions(t, "}") : i > lo}
    IN  IF opens = {} \/ closes = {} THEN [found |-> FALSE, group |-> <<>>]
        ELSE [found |-> TRUE, group |-> SubSeq(t, lo, Min(closes))]

JSON_OBJ_RE(t) ==
    LET opens == Positions(t, "{")
        lo == Min(opens)
        closes == {i \in Positions(t, "}") : i > lo}
    IN  IF opens = {} \/ closes = {} THEN [found |-> FALSE, group |-> <<>>]
        ELSE [found |-> TRUE, group |-> SubSeq(t, lo, Max(closes))]

Returned(v) == [ok |-> TRUE, v |-> v, err |-> ""]
Raised(err) == [ok |-> FALSE, v |-> None, err |-> err]

\* line 107: json.loads(m.group(0)), its JSONDecodeError not caught
span_value(part) ==
    IF part.ok THEN Returned(part.v) ELSE Raised("JSONDecodeError")

\* when no span is found, an empty object is returned instead of raising
extract_span_default_empty(m) ==
    IF m.found THEN span_value(json_loads(m.group)) ELSE Returned(JObj(<<>>))

\* lines 105-108
extract_span(m) ==
    IF m.found THEN span_value(json_loads(m.group)) ELSE Raised("ValueError")

\* a variant that only searches for the object span and never tries the
\* whole text, with a non-greedy span
extract_json_span_only(text) ==
    IF JSON_OBJ_RE_lazy(text).found
    THEN span_value(json_loads(JSON_OBJ_RE_lazy(text).group))
    ELSE Raised("ValueError")

\* the isinstance(data, dict) test left out: whatever parses is returned
extract_whole_any(text, data) ==
    IF data.ok THEN Returned(data.v) ELSE extract_span(JSON_OBJ_RE(text))

\* lines 99-104: data is json.loads(line), a failure if it raised
extract_whole(text, data) ==
    IF data.ok /\ data.v.t = "obj" THEN Returned(data.v)
    ELSE extract_span(JSON_OBJ_RE(text))

extract_json(text) == extract_whole(text, json_loads(text))

-----------------------------------------------------------------------------
(* The extractor applied to bounded inputs *)

MaxKeys == 2        \* keys of a serialized object
MaxNoise == 2       \* characters of noise before and after an embedded object
MaxLen == 4         \* characters of an arbitrary text

\* all sequences over S of length at most n
RECURSIVE SeqsUpTo(_, _)
SeqsUpTo(S, n) ==
    IF n = 0 THEN {<<>>}
    ELSE LET shorter == SeqsUpTo(S, n - 1)
         IN  shorter \cup {Append(q, c) : q \in shorter, c \in S}

AtomValues == {JStr(<<>>), JStr(<<"}", "\"">>), JStr(<<"\n">>), JInt(<<"1">>),
               JInt(<<"-", "2", "0">>), JTrue, JFalse, JNull}
InnerValues == AtomValues \cup {JObj(<<>>), JArr(<<>>),
                                JObj(<<Entry(<<"k">>, JArr(<<JObj(<<>>)>>))>>),
                                JArr(<<JInt(<<"1">>), JObj(<<Entry(<<>>, JNull)>>)>>)}
KeyNames == {<<>>, <<"a">>, <<"{", "b">>}

\* the well-formed structured objects: string keys, JSON values
Objects ==
    {JObj(es) : es \in {q \in SeqsUpTo({Entry(k, v) : k \in KeyNames, v \in InnerValues}, MaxKeys) :
                           Cardinality(Keys(q)) = Len(q)}}

\* valid JSON object texts with the object each denotes: serialized objects,
\* and hand-written ones (compact, spread over lines, a repeated key)
EmbeddedObjects ==
    {[obj |-> o, body |-> json_dumps(o)] :
        o \in {JObj(<<>>),
               JObj(<<Entry(<<"a">>, JInt(<<"1">>))>>),
               JObj(<<Entry(<<"a">>, JObj(<<Entry(<<"b">>, JArr(<<JObj(<<>>)>>))>>)),
                      Entry(<<"c">>, JStr(<<"}", "{">>))>>)}}
    \cup
    {[obj |-> JObj(<<Entry(<<"a">>, JArr(<<JTrue>>))>>),
      body |-> <<"{", "\n", "\"", "a", "\"", ":", "[", "t", "r", "u", "e", "]", "\n", "}">>],
     [obj |-> JObj(<<Entry(<<"a">>, JObj(<<>>))>>),
      body |-> <<"{", "\"", "a", "\"", ":", "1", ",", "\"", "a", "\"", ":", "{", "}", "}">>]}

NoiseChars == {"x", " ", "\n", "{", "}", "[", "]"}
Noise == SeqsUpTo(NoiseChars, MaxNoise)

RawChars == {"{", "}", "[", "]", "\"", ":", ",", "1", " "}
\* texts written out: scalars, prose, a list around an object, two objects
WrittenTexts ==
    {<<"t", "r", "u", "e">>, <<"f", "a", "l", "s", "e">>, <<"n", "u", "l", "l">>,
     <<"-", "1", ".", "5">>, <<"\"", "a", " ", "}", "\"">>,
     <<"n", "o", " ", "j", "s", "o", "n">>,
     <<"[", "{", "\"", "a", "\"", ":", " ", "1", "}", ",", " ", "2", "]">>,
     <<"{", "\"", "a", "\"", ":", " ", "1", "}", "\n", "{", "\"", "b", "\"", ":", " ", "2", "}">>}
RawTexts == SeqsUpTo(RawChars, MaxLen) \cup WrittenTexts

NoObject == [obj |-> None, body |-> <<>>]
NotCalled == [ok |-> FALSE, v |-> None, err |-> "not called"]

InitExtract ==
    /\ ret = NotCalled
    /\ sess = [s \in {1, 2} |-> None]
    /\ obs = [s \in {1, 2} |-> None]
    /\ log = [s \in {1, 2} |-> <<>>]
    /\ \/ \E o \in Objects :
            /\ origin = [kind |-> "dumped", pre |-> <<>>, obj |-> o,
                         body |-> json_dumps(o), suf |-> <<>>]
            /\ line = json_dumps(o)
       \/ \E em \in EmbeddedObjects, pre \in Noise, suf \in Noise :
            /\ origin = [kind |-> "embedded", pre |-> pre, obj |-> em.obj,
                         body |-> em.body, suf |-> suf]
            /\ line = pre \o em.body \o suf
       \/ \E txt \in RawTexts :
            /\ origin = [kind |-> "raw", pre |-> <<>>, obj |-> None,
                         body |-> txt, suf |-> <<>>]
            /\ line = txt

\* one call extract_json(line)
Extract ==
    /\ ret = NotCalled
    /\ ret' = extract_json(line)
    /\ UNCHANGED <<line, origin, sess, obs, log>>

NextExtract == Extract

SpecExtract == InitExtract /\ [][NextExtract]_vars

-----------------------------------------------------------------------------
(* Global configuration and prompt templates (app.py sections 1 and 2) *)

MODEL_SOLVER == "deepseek-r1:1.5b"
MODEL_VERIFIER == "deepseek-r1:1.5b"
MODEL_FIXER == "deepseek-r1:1.5b"
TEMPERATURE_SOLVER == 0
TEMPERATURE_VERIFIER == 0
TEMPERATURE_FIXER == 0
SEED == 42
MAX_ITERS == 3
TASK_TYPES == {"mcq", "numeric", "proof_outline", "short_answer"}

\* the prompt texts are opaque: a system prompt is named, a user prompt is its
\* template with the values str.format puts into it
SOLVER_SYSTEM == "SOLVER_SYSTEM"
VERIFIER_SYSTEM == "VERIFIER_SYSTEM"
FIXER_SYSTEM == "FIXER_SYSTEM"
SOLVER_FEWSHOT == [tt \in TASK_TYPES |-> <<"fewshot", tt>>]

NoText == <<>>
SOLVER_USER_TEMPLATE(task_type, fewshot, problem) ==
    [template |-> "SOLVER_USER_TEMPLATE", task_type |-> task_type, fewshot |-> fewshot,
     problem |-> problem, candidate |-> NoText, bug_report |-> NoText]
VERIFIER_USER_TEMPLATE(problem, candidate) ==
    [template |-> "VERIFIER_USER_TEMPLATE", task_type |-> "", fewshot |-> <<>>,
     problem |-> problem, candidate |-> candidate, bug_report |-> NoText]
FIXER_USER_TEMPLATE(problem, candidate, bug_report) ==
    [template |-> "FIXER_USER_TEMPLATE", task_type |-> "", fewshot |-> <<>>,
     problem |-> problem, candidate |-> candidate, bug_report |-> bug_report]

-----------------------------------------------------------------------------
(* str(x).lower() on a JSON value (solve_one, line 145) *)

UpperCase == <<"A", "B", "C", "D", "E", "F", "G", "H", "I", "J", "K", "L", "M",
               "N", "O", "P", "Q", "R", "S", "T", "U", "V", "W", "X", "Y", "Z">>
LowerCase == <<"a", "b", "c", "d", "e", "f", "g", "h", "i", "j", "k", "l", "m",
               "n", "o", "p", "q", "r", "s", "t", "u", "v", "w", "x", "y", "z">>
lower_char(c) == IF \E i \in DOMAIN UpperCase : UpperCase[i] = c
                 THEN LowerCase[CHOOSE i \in DOMAIN UpperCase : UpperCase[i] = c]
                 ELSE c
lower(s) == [i \in 1..Len(s) |-> lower_char(s[i])]

\* repr of a str: single quotes, backslash and control characters escaped
\* (no text of the model holds a single quote)
repr_char(c) == CASE c = "\\" -> <<"\\", "\\">>
                  [] c = "\n" -> <<"\\", "n">>
                  [] c = "\r" -> <<"\\", "r">>
                  [] c = "\t" -> <<"\\", "t">>
                  [] OTHER -> <<c>>
RECURSIVE repr_chars(_)
repr_chars(s) == IF s = <<>> THEN <<>> ELSE repr_char(Head(s)) \o repr_chars(Tail(s))
repr_str(s) == <<"'">> \o repr_chars(s) \o <<"'">>

RECURSIVE py_repr(_), repr_items(_, _)
py_repr(v) ==
    CASE v.t = "str" -> repr_str(v.s)
      [] v.t \in {"int", "float"} -> v.s
      [] v.t = "true" -> <<"T", "r", "u", "e">>
      [] v.t = "false" -> <<"F", "a", "l", "s", "e">>
      [] v.t = "null" -> <<"N", "o", "n", "e">>
      [] v.t = "arr" -> <<"[">> \o repr_items(v.e, FALSE) \o <<"]">>
      [] v.t = "obj" -> <<"{">> \o repr_items(v.e, TRUE) \o <<"}">>
repr_items(es, keyed) ==
    IF es = <<>> THEN <<>>
    ELSE LET item == IF keyed
                     THEN repr_str(es[1].k) \o <<":", " ">> \o py_repr(es[1].v)
                     ELSE py_repr(es[1].v)
         IN  IF Len(es) = 1 THEN item
             ELSE item \o <<",", " ">> \o repr_items(Tail(es), keyed)

\* str(x): a str is itself, anything else its repr
py_str(v) == IF v.t = "str" THEN v.s ELSE py_repr(v)

VERDICT == <<"v", "e", "r", "d", "i", "c", "t">>
PASS == <<"p", "a", "s", "s">>
FAIL == <<"f", "a", "i", "l">>

\* verifier_out.get("verdict", "pass"): a missing verdict counts as a pass
get_verdict_default_pass(verifier_out) ==
    IF VERDICT \in Keys(verifier_out.e) THEN Lookup(verifier_out.e, VERDICT) ELSE JStr(PASS)

\* verifier_out.get("verdict", "fail")
get_verdict(verifier_out) ==
    IF VERDICT \in Keys(verifier_out.e) THEN Lookup(verifier_out.e, VERDICT) ELSE JStr(FAIL)

\* the verdict compared as it was written, without .lower()
verdict_of_case_sensitive(verifier_out) == py_str(get_verdict(verifier_out))

\* verdict = str(verifier_out.get("verdict", "fail")).lower()
verdict_of(verifier_out) == lower(py_str(get_verdict(verifier_out)))

-----------------------------------------------------------------------------
(* solve_one: one session is one call of the coroutine.  Its frame holds   *)
(* the arguments, the locals, and where it stands: "idle" (not called),    *)
(* "await" (suspended in client.chat), "returned", "raised".               *)

SolveResult(ok, final_answer, iters) ==
    [ok |-> ok, final_answer |-> final_answer, iters |-> iters]
NoResult == [ok |-> FALSE, final_answer |-> None, iters |-> 0]

IdleFrame ==
    [pc |-> "idle", problem |-> "", task_type |-> "", max_iters |-> 0,
     it |-> 0, candidate |-> None, verifier_out |-> None, cand |-> None,
     pending |-> <<>>, calls |-> <<>>, result |-> NoResult, error |-> ""]

return_(f, res) == [f EXCEPT !.pc = "returned", !.result = res]
raise_(f, err) == [f EXCEPT !.pc = "raised", !.error = err, !.pending = <<>>]

\* the stage a request belongs to, read off its system prompt
Stage(system) == CASE system = SOLVER_SYSTEM -> "solve"
                   [] system = FIXER_SYSTEM -> "fix"
                   [] system = VERIFIER_SYSTEM -> "verify"

\* options without the seed
ChatRequest_unseeded(model, system, user, temperature) ==
    [model |-> model, system |-> system, user |-> user,
     options |-> [temperature |-> temperature]]

\* lines 111-115: the arguments of client.chat
ChatRequest(model, system, user, temperature) ==
    [model |-> model, system |-> system, user |-> user,
     options |-> [temperature |-> temperature, seed |-> SEED]]

\* a gateway that sends every request twice (a hedged request)
call_llm_hedged(f, model, system, user, temperature) ==
    [f EXCEPT !.pc = "await",
              !.pending = @ \o <<ChatRequest(model, system, user, temperature),
                                 ChatRequest(model, system, user, temperature)>>,
              !.calls = Append(@, [stage |-> Stage(system), it |-> f.it])]

\* call_llm up to its await: one request goes out and the session suspends
call_llm(f, model, system, user, temperature) ==
    [f EXCEPT !.pc = "await",
              !.pending = Append(@, ChatRequest(model, system, user, temperature)),
              !.calls = Append(@, [stage |-> Stage(system), it |-> f.it])]

\* range(1, max_iters): one iteration short
iter_range_short(max_iters) == 1..(max_iters - 1)

\* a loop that runs at least once, whatever max_iters is
iter_range_at_least_once(max_iters) == 1..Max({1, max_iters})

\* range(1, max_iters + 1)
iter_range(max_iters) == 1..max_iters

\* "if not candidate": an empty candidate counts as no candidate
candidate_is_falsy(candidate) == candidate = None \/ candidate.e = <<>>

\* "if candidate is None"
candidate_is_None(candidate) == candidate = None

\* "candidate or {}"
candidate_or_empty(candidate) ==
    IF candidate = None \/ candidate.e = <<>> THEN JObj(<<>>) ELSE candidate

\* lines 134-141 and 150: the loop head for iteration it, up to the await of
\* the solver or fixer call, or the return after the last iteration
iteration(f, it) ==
    IF it \notin iter_range(f.max_iters)
    THEN return_(f, SolveResult(FALSE, candidate_or_empty(f.candidate), f.max_iters))
    ELSE LET g == [f EXCEPT !.it = it] IN
         IF candidate_is_None(g.candidate)
         THEN IF g.task_type \notin DOMAIN SOLVER_FEWSHOT THEN raise_(g, "KeyError")
              ELSE call_llm(g, MODEL_SOLVER, SOLVER_SYSTEM,
                            SOLVER_USER_TEMPLATE(g.task_type, SOLVER_FEWSHOT[g.task_type],
                                                 g.problem),
                            TEMPERATURE_SOLVER)
         ELSE call_llm(g, MODEL_FIXER, FIXER_SYSTEM,
                       FIXER_USER_TEMPLATE(g.problem, json_dumps(g.candidate),
                                           json_dumps(g.verifier_out)),
                       TEMPERATURE_FIXER)

NewFrame(problem, task_type, max_iters) ==
    [IdleFrame EXCEPT !.problem = problem, !.task_type = task_type,
                      !.max_iters = max_iters,
                      !.candidate = None, !.verifier_out = JObj(<<>>)]

\* solve_one with the assert stripped
solve_one_unasserted(problem, task_type, max_iters) ==
    iteration(NewFrame(problem, task_type, max_iters), 1)

\* lines 128-134: the call of solve_one, up to its first await
solve_one(problem, task_type, max_iters) ==
    IF task_type \notin TASK_TYPES
    THEN raise_(NewFrame(problem, task_type, max_iters), "AssertionError")
    ELSE iteration(NewFrame(problem, task_type, max_iters), 1)

\* A reply of the generation service: client.chat raises, or returns a
\* response with a content text
ChatRaised == [raised |-> TRUE, content |-> <<>>]
ChatContent(text) == [raised |-> FALSE, content |-> text]

Report(verdict) == JObj(<<Entry(VERDICT, verdict)>>)
PassReport == Report(JStr(PASS))
FailReport ==
    JObj(<<Entry(VERDICT, JStr(FAIL)), Entry(<<"b", "u", "g", "s">>, JArr(<<JStr(<<"x">>)>>))>>)
Answer(value) == JObj(<<Entry(<<"v", "a", "l", "u", "e">>, JStr(value))>>)

\* the objects the service answers with: candidates and reports of every
\* kind of verdict (the service is free to answer any of them to any call)
ResponseObjects ==
    {JObj(<<>>), Answer(<<"4">>),
     PassReport, Report(JStr(<<"P", "A", "S", "S">>)), Report(JStr(<<"P", "a", "s", "s">>)),
     FailReport, Report(JStr(<<" ", "p", "a", "s", "s">>)),
     Report(JInt(<<"1">>)), Report(JTrue), Report(JNull),
     Report(JArr(<<JStr(PASS)>>)), Report(PassReport)}

NoisyPass == <<"O", "K", ":", " ">> \o json_dumps(PassReport) \o <<"\n", "d", "o", "n", "e">>
Prose == <<"n", "o", " ", "j", "s", "o", "n">>
BadObject == <<"{", "\"", "v", "e", "r", "d", "i", "c", "t", "\"", ":", " ", "p", "a", "s", "s", "}">>

ResponseTexts == {json_dumps(o) : o \in ResponseObjects} \cup {NoisyPass, Prose, BadObject}
\* extract_json on each of these texts (tabulated once)
Extracted == [t \in ResponseTexts |-> extract_json(t)]

\* call_llm from its await on (lines 111-116): the response, extracted
received(reply) ==
    IF reply.raised THEN Raised("ResponseError") ELSE Extracted[reply.content]

\* a failed call is sent again instead of raising
retry_on_error(f, err) ==
    [f EXCEPT !.calls = Append(@, f.calls[Len(f.calls)])]

\* an exception of call_llm is not caught in solve_one
on_error(f, err) == raise_(f, err)

\* "if verdict == 'passed'"
is_pass_typo(verdict) == verdict = <<"p", "a", "s", "s", "e", "d">>

\* line 146: verdict == "pass"
is_pass(verdict) == verdict = PASS

\* lines 143-144: the verifier is called on the new candidate
verify_candidate(g) ==
    call_llm(g, MODEL_VERIFIER, VERIFIER_SYSTEM,
             VERIFIER_USER_TEMPLATE(g.problem, json_dumps(g.cand)),
             TEMPERATURE_VERIFIER)

candidate_received(f, r) ==
    IF ~r.ok THEN on_error(f, r.err)
    ELSE verify_candidate([f EXCEPT !.pending = Tail(@), !.cand = r.v])

\* lines 137/141 and 143-144: the solver's or fixer's reply arrives
on_candidate(f, reply) == candidate_received(f, received(reply))

\* a loop whose counter is never advanced: a failing turn is run again
judge_no_advance(g) ==
    IF is_pass(verdict_of(g.verifier_out))
    THEN return_(g, SolveResult(TRUE, g.cand, g.it))
    ELSE iteration([g EXCEPT !.candidate = g.cand], g.it)

\* on a pass, the candidate of the turn before is returned
judge_returns_previous(g) ==
    IF is_pass(verdict_of(g.verifier_out))
    THEN return_(g, SolveResult(TRUE, candidate_or_empty(g.candidate), g.it))
    ELSE iteration([g EXCEPT !.candidate = g.cand], g.it + 1)

\* "candidate = cand" only while there is no candidate: the solver's
\* candidate is kept through every fix
judge_keeps_first(g) ==
    IF is_pass(verdict_of(g.verifier_out))
    THEN return_(g, SolveResult(TRUE, g.cand, g.it))
    ELSE iteration([g EXCEPT !.candidate = IF g.candidate = None THEN g.cand
                                           ELSE g.candidate],
                   g.it + 1)

\* lines 145-148 and the next turn of the loop
judge(g) ==
    IF is_pass(verdict_of(g.verifier_out))
    THEN return_(g, SolveResult(TRUE, g.cand, g.it))
    ELSE iteration([g EXCEPT !.candidate = g.cand], g.it + 1)

report_received(f, r) ==
    IF ~r.ok THEN on_error(f, r.err)
    ELSE judge([f EXCEPT !.pending = Tail(@), !.verifier_out = r.v])

\* lines 144-150: the verifier's reply arrives
on_report(f, reply) == report_received(f, received(reply))

AwaitsVerifier(f) == f.pc = "await" /\ Stage(f.pending[1].system) = "verify"
AwaitsCandidate(f) == f.pc = "await" /\ Stage(f.pending[1].system) \in {"solve", "fix"}

-----------------------------------------------------------------------------
(* Sessions and the generation service *)

MaxIters == 3       \* largest max_iters a session is called with
MaxItersConc == 3   \* the same, for sessions running side by side

Sessions == {1, 2}
Main == Min(Sessions)

\* what the observer has seen of a session: replies received, replies that
\* failed (client.chat raised, or no object could be extracted), verifier
\* reports that passed, the last verifier report and the last candidate the
\* solver or fixer produced
NoObs == [replies |-> 0, failures |-> 0, passes |-> 0, report |-> None, produced |-> None]

HasVerdict(report) == VERDICT \in Keys(report.e)
VerdictField(report) == Lookup(report.e, VERDICT)

\* the report passes: its verdict is the string "pass" in any letter case
YieldsPass(report) ==
    /\ HasVerdict(report)
    /\ VerdictField(report).t = "str"
    /\ lower(VerdictField(report).s) = PASS

Observed(o, r, is_report) ==
    [replies |-> o.replies + 1,
     failures |-> o.failures + (IF r.ok THEN 0 ELSE 1),
     passes |-> o.passes + (IF is_report /\ r.ok /\ YieldsPass(r.v) THEN 1 ELSE 0),
     report |-> IF is_report /\ r.ok THEN r.v ELSE o.report,
     produced |-> IF ~is_report /\ r.ok THEN r.v ELSE o.produced]
Observe(o, reply, is_report) == Observed(o, received(reply), is_report)

\* the loop counter as a module-level variable, shared by all sessions
Store_shared_counter(ss, s, f) ==
    [u \in DOMAIN ss |-> IF u = s THEN f ELSE [ss[u] EXCEPT !.it = f.it]]

\* the frames of the sessions are kept apart ...
\* ... unless candidate were a module-level variable, shared by all sessions
Store_shared_candidate(ss, s, f) ==
    [u \in DOMAIN ss |-> IF u = s THEN f ELSE [ss[u] EXCEPT !.candidate = f.candidate]]

\* each call of solve_one has its own locals and its own client (lines 130-132)
Store(ss, s, f) == [ss EXCEPT ![s] = f]

Replies == {ChatRaised} \cup {ChatContent(t) : t \in ResponseTexts}

Problems == {"P1", "P2"}
TaskInputs == TASK_TYPES \cup {"essay"}
CallInputs == {[problem |-> "P1", task_type |-> tt] : tt \in TaskInputs}
              \cup {[problem |-> "P2", task_type |-> "numeric"]}
IterInputs == (0 - 1)..MaxIters

IdleExtract ==
    /\ line = <<>>
    /\ origin = [kind |-> "none", pre |-> <<>>, obj |-> None, body |-> <<>>, suf |-> <<>>]
    /\ ret = NotCalled

IdleSessions ==
    /\ sess = [s \in Sessions |-> IdleFrame]
    /\ obs = [s \in Sessions |-> NoObs]
    /\ log = [s \in Sessions |-> <<>>]

Init == IdleExtract /\ IdleSessions

\* a caller invokes solve_one(problem, task_type, max_iters)
Call(s, problem, task_type, max_iters) ==
    /\ sess[s].pc = "idle"
    /\ sess' = Store(sess, s, solve_one(problem, task_type, max_iters))
    /\ UNCHANGED obs

\* the service answers the solver or fixer call the session awaits
CandidateReply(s, reply) ==
    /\ AwaitsCandidate(sess[s])
    /\ sess' = Store(sess, s, on_candidate(sess[s], reply))
    /\ obs' = [obs EXCEPT ![s] = Observe(@, reply, FALSE)]

\* the service answers the verifier call the session awaits
VerifierReply(s, reply) ==
    /\ AwaitsVerifier(sess[s])
    /\ sess' = Store(sess, s, on_report(sess[s], reply))
    /\ obs' = [obs EXCEPT ![s] = Observe(@, reply, TRUE)]

Solve ==
    /\ \E c \in CallInputs, n \in IterInputs : Call(Main, c.problem, c.task_type, n)
    /\ UNCHANGED <<line, origin, ret, log>>

Produce ==
    /\ \E reply \in Replies : CandidateReply(Main, reply)
    /\ UNCHANGED <<line, origin, ret, log>>

Verify ==
    /\ \E reply \in Replies : VerifierReply(Main, reply)
    /\ UNCHANGED <<line, origin, ret, log>>

Next == Solve \/ Produce \/ Verify

Spec == Init /\ [][Next]_vars

-----------------------------------------------------------------------------
(* Properties of one session (specification Spec) *)

NumCalls(f, stages) == Cardinality({i \in DOMAIN f.calls : f.calls[i].stage \in stages})
ProduceStages == {"solve", "fix"}
LastCall(f) == f.calls[Len(f.calls)]

\* C1: with max_iters = N >= 1, a valid task type, no failing call and no
\* verifier report that passes, the session returns exactly when 2N replies
\* have arrived, after exactly N solver/fixer calls and N verifier calls, and
\* what it returns is ok = false with iterations = N.
LoopTerminationBound ==
    \A s \in Sessions :
        LET f == sess[s]
            o == obs[s]
        IN  (/\ f.pc # "idle" /\ f.task_type \in TASK_TYPES /\ f.max_iters >= 1
             /\ o.failures = 0 /\ o.passes = 0)
            => /\ f.pc \in {"await", "returned"}
               /\ (f.pc = "returned") <=> (o.replies = 2 * f.max_iters)
               /\ NumCalls(f, ProduceStages) <= f.max_iters
               /\ NumCalls(f, {"verify"}) <= f.max_iters
               /\ f.pc = "returned"
                    => /\ NumCalls(f, ProduceStages) = f.max_iters
                       /\ NumCalls(f, {"verify"}) = f.max_iters
                       /\ f.result.ok = FALSE
                       /\ f.result.iters = f.max_iters

LoopTerminationBoundWitness ==
    /\ sess[Main].pc = "returned" /\ sess[Main].max_iters = 3
    /\ obs[Main].failures = 0 /\ obs[Main].passes = 0
    /\ NumCalls(sess[Main], {"verify"}) = 3 /\ NumCalls(sess[Main], {"fix"}) = 2
    /\ sess[Main].result = SolveResult(FALSE, Answer(<<"4">>), 3)

\* C2: once a verifier report passes, at iteration k, the session has returned
\* ok = true with iterations = k: the passing report is the last reply, its
\* verifier call the last call (the k-th verifier call after k solver/fixer
\* calls), nothing is outstanding, and with k = 1 no fixer call was made.
EarlySuccess ==
    \A s \in Sessions :
        LET f == sess[s]
            o == obs[s]
        IN  o.passes >= 1
            => /\ o.passes = 1
               /\ f.pc = "returned"
               /\ f.result.ok = TRUE
               /\ f.result.iters \in 1..f.max_iters
               /\ NumCalls(f, {"verify"}) = f.result.iters
               /\ NumCalls(f, ProduceStages) = f.result.iters
               /\ LastCall(f) = [stage |-> "verify", it |-> f.result.iters]
               /\ Len(f.calls) = o.replies
               /\ f.pending = <<>>
               /\ f.result.iters = 1 => NumCalls(f, {"fix"}) = 0

EarlySuccessWitness ==
    /\ sess[Main].pc = "returned" /\ sess[Main].max_iters = 3
    /\ sess[Main].result.ok /\ sess[Main].result.iters = 2
    /\ obs[Main].report = PassReport

\* the verdicts claim C3 lists: no verdict field, a verdict that is no string,
\* or a string that is neither "pass" nor "fail"
UnverifiableLiteral(report) ==
    \/ ~HasVerdict(report)
    \/ VerdictField(report).t # "str"
    \/ VerdictField(report).s \notin {PASS, FAIL}

\* the same, "pass" taken in any letter case
Unverifiable(report) ==
    \/ ~HasVerdict(report)
    \/ VerdictField(report).t # "str"
    \/ (lower(VerdictField(report).s) # PASS /\ VerdictField(report).s # FAIL)

TreatedAsFailing(f) ==
    /\ ~(f.pc = "returned" /\ f.result.ok)
    /\ f.pc = "returned" => /\ f.result.iters = f.max_iters
                            /\ NumCalls(f, {"verify"}) = f.max_iters

\* C3 as stated: a last verifier report without a verdict, with a verdict that
\* is no string, or with a string verdict that is neither "pass" nor "fail"
\* never ends the session with ok = true.
DefaultClosedAsStated ==
    \A s \in Sessions :
        (obs[s].report # None /\ UnverifiableLiteral(obs[s].report))
            => TreatedAsFailing(sess[s])

\* C3, amended: when the last verifier report has no verdict field, a verdict
\* that is no string, or a string verdict that is neither "pass" in any letter
\* case nor "fail", the session has not returned ok = true, and if it has
\* returned, it returned after max_iters iterations (ok = false).
DefaultClosed ==
    \A s \in Sessions :
        (obs[s].report # None /\ Unverifiable(obs[s].report))
            => TreatedAsFailing(sess[s])

DefaultClosedWitness ==
    /\ obs[Main].report = JObj(<<>>)
    /\ sess[Main].pc = "returned" /\ sess[Main].max_iters = 2
    /\ sess[Main].result.ok = FALSE /\ sess[Main].result.iters = 2

\* C4: a call with a task type outside TASK_TYPES raises the assertion error
\* with no request sent, no reply consumed and no result.
InvalidTaskType ==
    \A s \in Sessions :
        LET f == sess[s] IN
        (f.pc # "idle" /\ f.task_type \notin TASK_TYPES)
            => /\ f.pc = "raised"
               /\ f.error = "AssertionError"
               /\ f.calls = <<>>
               /\ f.pending = <<>>
               /\ f.result = NoResult
               /\ obs[s].replies = 0

InvalidTaskTypeWitness ==
    /\ sess[Main].pc = "raised" /\ sess[Main].task_type = "essay"
    /\ sess[Main].max_iters = 3 /\ sess[Main].calls = <<>>

\* C5: the i-th iteration's calls are the (2i-1)-th and 2i-th calls of the
\* session: first the solver (i = 1) or the fixer (i >= 2), whatever the
\* previous candidate holds, then the verifier; and the verifier's prompt
\* carries the candidate the solver or fixer has just produced.
OneCandidatePerIteration ==
    \A s \in Sessions :
        LET f == sess[s] IN
        /\ \A i \in DOMAIN f.calls :
              f.calls[i] = IF i % 2 = 0 THEN [stage |-> "verify", it |-> i \div 2]
                           ELSE IF i = 1 THEN [stage |-> "solve", it |-> 1]
                           ELSE [stage |-> "fix", it |-> (i + 1) \div 2]
        /\ AwaitsVerifier(f)
             => f.pending[1].user.candidate = json_dumps(obs[s].produced)

OneCandidatePerIterationWitness ==
    /\ AwaitsVerifier(sess[Main])
    /\ sess[Main].candidate = JObj(<<>>)
    /\ Len(sess[Main].calls) = 4
    /\ sess[Main].calls[3] = [stage |-> "fix", it |-> 2]
    /\ obs[Main].produced = Answer(<<"4">>)

\* C6: once a reply has failed (the service raised, or no object could be
\* extracted from its text), the session has raised that error at that call:
\* it is the only failure, the failed call is the last call issued, in the
\* iteration the session was in, nothing is outstanding and no result exists.
ErrorsAbort ==
    \A s \in Sessions :
        LET f == sess[s]
            o == obs[s]
        IN  o.failures >= 1
            => /\ o.failures = 1
               /\ f.pc = "raised"
               /\ f.error \in {"ResponseError", "ValueError", "JSONDecodeError"}
               /\ f.result = NoResult
               /\ f.pending = <<>>
               /\ Len(f.calls) = o.replies
               /\ LastCall(f).it = f.it

ErrorsAbortWitness ==
    /\ sess[Main].pc = "raised" /\ sess[Main].error = "JSONDecodeError"
    /\ sess[Main].it = 2 /\ LastCall(sess[Main]).stage = "verify"
    /\ obs[Main].failures = 1

\* C7: a session has at most one request outstanding, every call but the
\* outstanding one has been answered, and the calls alternate
\* produce(1), verify(1), produce(2), verify(2), ...
StrictlySequential ==
    \A s \in Sessions :
        LET f == sess[s] IN
        /\ Len(f.pending) <= 1
        /\ Len(f.calls) = obs[s].replies + Len(f.pending)
        /\ \A i \in DOMAIN f.calls :
              /\ f.calls[i].it = (i + 1) \div 2
              /\ (f.calls[i].stage = "verify") <=> (i % 2 = 0)

StrictlySequentialWitness ==
    /\ sess[Main].pc = "await" /\ Len(sess[Main].pending) = 1
    /\ Len(sess[Main].calls) = 4 /\ obs[Main].replies = 3

\* C12: a session called with max_iters >= 1 that has returned a result
\* returns as final_answer the candidate the solver or fixer produced last,
\* the one of the iteration it returns in: with ok = true the iteration whose
\* report passed, with ok = false iteration max_iters; one candidate was
\* produced and one report received per iteration up to that one.
FinalAnswerIsLastCandidate ==
    \A s \in Sessions :
        LET f == sess[s]
            o == obs[s]
        IN  (f.pc = "returned" /\ f.max_iters >= 1)
            => /\ f.result.final_answer = o.produced
               /\ f.result.final_answer = f.cand
               /\ f.result.iters = f.it
               /\ NumCalls(f, ProduceStages) = f.result.iters
               /\ o.replies = 2 * f.result.iters
               /\ f.result.ok => YieldsPass(o.report)
               /\ ~f.result.ok => f.result.iters = f.max_iters

\* a pass at iteration 2, where the candidate of iteration 1 was another
FinalAnswerIsLastCandidateWitness ==
    /\ sess[Main].pc = "returned" /\ sess[Main].result.ok
    /\ sess[Main].result.iters = 2
    /\ sess[Main].candidate = Answer(<<"4">>)
    /\ sess[Main].result.final_answer = JObj(<<>>)

AwaitsFixer(f) == f.pc = "await" /\ Stage(f.pending[1].system) = "fix"

\* C13: the fixer call of iteration i >= 2 is issued when the 2(i-1) replies
\* of the iterations before have arrived, and its prompt carries the problem,
\* the candidate produced last (in iteration i-1) and the report received
\* last (in iteration i-1), both serialized.
FixerGetsPrevious ==
    \A s \in Sessions :
        LET f == sess[s]
            o == obs[s]
        IN  AwaitsFixer(f)
            => /\ f.it >= 2
               /\ o.replies = 2 * (f.it - 1)
               /\ Len(f.calls) = 2 * f.it - 1
               /\ f.pending[1].user =
                     FIXER_USER_TEMPLATE(f.problem, json_dumps(o.produced), json_dumps(o.report))

FixerGetsPreviousWitness ==
    /\ AwaitsFixer(sess[Main]) /\ sess[Main].it = 3
    /\ obs[Main].produced = Answer(<<"4">>)
    /\ obs[Main].report = Report(JNull)

\* the string "pass" in each letter casing
PassCasings ==
    {<<p, a, s1, s2>> : p \in {"p", "P"}, a \in {"a", "A"}, s1 \in {"s", "S"}, s2 \in {"s", "S"}}

\* C14: when the verifier report received last has as verdict the string
\* "pass" in any letter casing, the session has returned ok = true with the
\* iteration of that report, and no call is outstanding.
CaseInsensitivePass ==
    \A s \in Sessions :
        LET f == sess[s]
            o == obs[s]
        IN  (/\ o.report # None /\ HasVerdict(o.report)
             /\ VerdictField(o.report).t = "str"
             /\ VerdictField(o.report).s \in PassCasings)
            => /\ f.pc = "returned"
               /\ f.result.ok = TRUE
               /\ f.result.iters = f.it
               /\ NumCalls(f, {"verify"}) = f.it
               /\ o.replies = 2 * f.it
               /\ f.pending = <<>>

CaseInsensitivePassWitness ==
    /\ obs[Main].report = Report(JStr(<<"P", "A", "S", "S">>))
    /\ sess[Main].pc = "returned" /\ sess[Main].result.ok
    /\ sess[Main].result.iters = 2 /\ sess[Main].max_iters = 3

\* the stage of a session's k-th call
StageOfCall(k) == IF k % 2 = 0 THEN "verify" ELSE IF k = 1 THEN "solve" ELSE "fix"

\* the model, temperature and system prompt configured for a stage
Configured(stage) ==
    CASE stage = "solve" -> [model |-> MODEL_SOLVER, temperature |-> TEMPERATURE_SOLVER,
                             system |-> SOLVER_SYSTEM]
      [] stage = "fix" -> [model |-> MODEL_FIXER, temperature |-> TEMPERATURE_FIXER,
                           system |-> FIXER_SYSTEM]
      [] stage = "verify" -> [model |-> MODEL_VERIFIER, temperature |-> TEMPERATURE_VERIFIER,
                              system |-> VERIFIER_SYSTEM]

\* C16: the request a session has outstanding, its k-th, carries the options
\* seed = SEED and temperature = the temperature of the k-th call's stage and
\* nothing else, the model of that stage and the system prompt of that stage.
SeedOnEveryCall ==
    \A s \in Sessions :
        LET f == sess[s] IN
        \A i \in DOMAIN f.pending :
            LET req == f.pending[i]
                conf == Configured(StageOfCall(Len(f.calls)))
            IN  /\ DOMAIN req.options = {"seed", "temperature"}
                /\ req.options.seed = SEED
                /\ req.options.temperature = conf.temperature
                /\ req.model = conf.model
                /\ req.system = conf.system

SeedOnEveryCallWitness ==
    /\ Len(sess[Main].calls) = 5
    /\ sess[Main].pending # <<>>
    /\ sess[Main].pending[1].system = FIXER_SYSTEM
    /\ sess[Main].pending[1].options.seed = 42

\* C18: a call with a valid task type and max_iters <= 0 has returned, with
\* no request sent and no reply consumed, ok = false, final_answer the empty
\* object and iters the max_iters it was given.
NoIterationBudget ==
    \A s \in Sessions :
        LET f == sess[s] IN
        (f.pc # "idle" /\ f.task_type \in TASK_TYPES /\ f.max_iters <= 0)
            => /\ f.pc = "returned"
               /\ f.calls = <<>>
               /\ f.pending = <<>>
               /\ obs[s].replies = 0
               /\ f.result = SolveResult(FALSE, JObj(<<>>), f.max_iters)
               /\ f.result.iters \notin 1..MaxIters
               /\ f.max_iters < 0 => NumCalls(f, {"verify"}) # f.result.iters

NoIterationBudgetWitness ==
    /\ sess[Main].pc = "returned" /\ sess[Main].task_type = "numeric"
    /\ sess[Main].max_iters < 0
    /\ sess[Main].result.iters = sess[Main].max_iters
    /\ sess[Main].result.iters \notin 1..MaxIters

-----------------------------------------------------------------------------
(* One session whose calls are all answered (specification SpecLive): the  *)
(* service eventually answers, or fails, the call a session awaits.        *)

\* the replies of the service: it fails, answers prose, or answers an object
LiveReplies == {ChatRaised, ChatContent(Prose)}
               \cup {ChatContent(json_dumps(o)) :
                        o \in {JObj(<<>>), Answer(<<"4">>), PassReport, FailReport}}

LiveProduce ==
    /\ \E reply \in LiveReplies : CandidateReply(Main, reply)
    /\ UNCHANGED <<line, origin, ret, log>>

LiveVerify ==
    /\ \E reply \in LiveReplies : VerifierReply(Main, reply)
    /\ UNCHANGED <<line, origin, ret, log>>

NextLive == Solve \/ LiveProduce \/ LiveVerify

SpecLive == Init /\ [][NextLive]_vars /\ WF_vars(LiveProduce) /\ WF_vars(LiveVerify)

Terminated(f) == f.pc \in {"returned", "raised"}

\* C15: a session called with max_iters = N >= 1 never has issued more than
\* 2N calls, and, its calls being answered, it eventually has returned a
\* result or raised an error.
Termination ==
    /\ [](\A s \in Sessions :
             sess[s].max_iters >= 1 => Len(sess[s].calls) <= 2 * sess[s].max_iters)
    /\ \A s \in Sessions :
          (sess[s].pc = "await" /\ sess[s].max_iters >= 1) ~> Terminated(sess[s])

TerminationWitness ==
    /\ Terminated(sess[Main]) /\ sess[Main].max_iters = 3
    /\ Len(sess[Main].calls) = 6 /\ obs[Main].replies = 6

-----------------------------------------------------------------------------
(* Sessions side by side (specification SpecConc): two callers, each with  *)
(* its own problem, their calls answered in any order.  log keeps, per     *)
(* session, the replies it was given.                                      *)

ConcInput(s) == IF s = Main THEN [problem |-> "P1", task_type |-> "mcq"]
                ELSE [problem |-> "P2", task_type |-> "numeric"]
ConcReplies == {ChatRaised, ChatContent(Prose)}
               \cup {ChatContent(json_dumps(o)) : o \in {PassReport, FailReport}}

ConcSolve ==
    /\ \E s \in Sessions, n \in 1..MaxItersConc :
          Call(s, ConcInput(s).problem, ConcInput(s).task_type, n)
    /\ UNCHANGED <<line, origin, ret, log>>

ConcProduce ==
    /\ \E s \in Sessions, reply \in ConcReplies :
          /\ CandidateReply(s, reply)
          /\ log' = [log EXCEPT ![s] = Append(@, reply)]
    /\ UNCHANGED <<line, origin, ret>>

ConcVerify ==
    /\ \E s \in Sessions, reply \in ConcReplies :
          /\ VerifierReply(s, reply)
          /\ log' = [log EXCEPT ![s] = Append(@, reply)]
    /\ UNCHANGED <<line, origin, ret>>

NextConc == ConcSolve \/ ConcProduce \/ ConcVerify

SpecConc == Init /\ [][NextConc]_vars

\* solve_one run on its own: the frame after the call and the given replies
resume(f, reply) ==
    IF f.pc # "await" THEN f
    ELSE IF AwaitsVerifier(f) THEN on_report(f, reply)
    ELSE on_candidate(f, reply)
RECURSIVE Replay(_, _)
Replay(f, replies) ==
    IF replies = <<>> THEN f ELSE Replay(resume(f, Head(replies)), Tail(replies))
RunAlone(problem, task_type, max_iters, replies) ==
    Replay(solve_one(problem, task_type, max_iters), replies)

\* C8: however the calls of the sessions interleave, each session's frame
\* (iteration, candidates, report, calls, result or error) is the one the
\* session reaches when it runs alone with its own arguments and is given the
\* same replies; a session not called is untouched.
NoInterference ==
    \A s \in Sessions :
        sess[s] = IF sess[s].pc = "idle" /\ log[s] = <<>> THEN IdleFrame
                  ELSE RunAlone(ConcInput(s).problem, ConcInput(s).task_type,
                                sess[s].max_iters, log[s])

NoInterferenceWitness ==
    /\ \A s \in Sessions : sess[s].pc = "await" /\ Len(log[s]) = 3
    /\ sess[1].candidate # sess[2].candidate

-----------------------------------------------------------------------------
(* Twin sessions (specification SpecTwin): two callers, each free to pass   *)
(* either input, their calls answered in any order.                        *)

TwinInputs == {ConcInput(s) : s \in Sessions}

TwinSolve ==
    /\ \E s \in Sessions, c \in TwinInputs, n \in 1..MaxItersConc :
          Call(s, c.problem, c.task_type, n)
    /\ UNCHANGED <<line, origin, ret, log>>

NextTwin == TwinSolve \/ ConcProduce \/ ConcVerify

SpecTwin == Init /\ [][NextTwin]_vars

SameCall(f, g) ==
    /\ f.pc # "idle" /\ g.pc # "idle"
    /\ f.problem = g.problem /\ f.task_type = g.task_type /\ f.max_iters = g.max_iters

-----------------------------------------------------------------------------
(* Properties of the extractor (specification SpecExtract) *)

\* C9: for a well-formed object O, extract_json(json.dumps(O)) returns a
\* value equal to O.
ExtractorRoundTrip ==
    (origin.kind = "dumped" /\ ret # NotCalled)
        => ret.ok /\ PyEq(ret.v, origin.obj)

ExtractorRoundTripWitness ==
    /\ origin.kind = "dumped" /\ ret.ok
    /\ Len(origin.obj.e) = 2
    /\ origin.obj.e[1].v.t = "obj" /\ origin.obj.e[1].v.e # <<>>
    /\ origin.obj.e[2].v = JStr(<<"}", "\"">>)

\* C10 as stated: for every text noise-prefix, valid JSON object, noise-suffix
\* the extractor returns the embedded object.
ExtractorToleranceAsStated ==
    (origin.kind = "embedded" /\ ret # NotCalled)
        => ret.ok /\ PyEq(ret.v, origin.obj)

InSeq(c, q) == \E i \in DOMAIN q : q[i] = c

\* C10, amended: for every text noise-prefix, valid JSON object, noise-suffix
\* whose prefix holds no "{" and whose suffix holds no "}", the extractor
\* returns the embedded object.
ExtractorTolerance ==
    (/\ origin.kind = "embedded" /\ ret # NotCalled
     /\ ~InSeq("{", origin.pre) /\ ~InSeq("}", origin.suf))
        => ret.ok /\ PyEq(ret.v, origin.obj)

ExtractorToleranceWitness ==
    /\ origin.kind = "embedded" /\ ret.ok
    /\ origin.pre = <<"x", "[">> /\ origin.suf = <<"]", "{">>
    /\ Len(origin.obj.e) = 2

\* the text holds a "{" with a "}" somewhere after it
HasSpan(t) == \E i, j \in DOMAIN t : i < j /\ t[i] = "{" /\ t[j] = "}"

\* C11: for a text with no "{" followed later by a "}" (prose, a bare scalar,
\* a list of scalars, a "}" before a "{"), the extractor raises
\* ValueError("No valid JSON object found") and returns no value.
ExtractorFailure ==
    (ret # NotCalled /\ ~HasSpan(line))
        => ret = Raised("ValueError")

ExtractorFailureWitness ==
    /\ ret = Raised("ValueError")
    /\ line = <<"}", "1", "{">>

\* the text from its first "{" to its last "}"
GreedySpan(t) ==
    SubSeq(t, CHOOSE i \in DOMAIN t : t[i] = "{" /\ \A j \in 1..(i - 1) : t[j] # "{",
              CHOOSE i \in DOMAIN t : t[i] = "}" /\ \A j \in (i + 1)..Len(t) : t[j] # "}")

\* the parse of a text is a list, number, string, boolean or null
IsNonObject(data) == data.ok /\ data.v.t # "obj"
IsObject(data) == data.ok /\ data.v.t = "obj"

\* r is what parsing the span gives: its object, or the JSONDecodeError
IsSpanResult(r, part) ==
    IF part.ok THEN r = Returned(part.v) ELSE r = Raised("JSONDecodeError")

\* the text is two JSON objects side by side
TwoObjects(t) ==
    \E i \in DOMAIN t :
        /\ t[i] = "}"
        /\ IsObject(json_loads(SubSeq(t, 1, i)))
        /\ IsObject(json_loads(SubSeq(t, i + 1, Len(t))))

\* C17: whatever the text, the extractor returns an object or raises (the
\* ValueError of "no object found" or json.loads's JSONDecodeError); a text
\* that is valid JSON but no object is never returned as the value it
\* denotes: what is returned is the object its first-"{"-to-last-"}" span
\* parses to, and the extractor raises when there is no span or the span does
\* not parse, as for two objects side by side.
ExtractorObjectOnly ==
    ret # NotCalled
        => /\ ret.ok => ret.v.t = "obj"
           /\ ~ret.ok => ret.v = None /\ ret.err \in {"ValueError", "JSONDecodeError"}
           /\ IsNonObject(json_loads(line))
                => IF ~HasSpan(line) THEN ret = Raised("ValueError")
                   ELSE IsSpanResult(ret, json_loads(GreedySpan(line)))
           /\ TwoObjects(line) => ret = Raised("JSONDecodeError")

ExtractorObjectOnlyWitness ==
    /\ line = <<"[", "{", "}", "]">>
    /\ ret = Returned(JObj(<<>>))

====
